---- MODULE Spec2Model ----
(***************************************************************************)
(* A model of the two widgets of godcr's UI layer:                         *)
(*   - ui/decredmaterial/editor/editor.go : the Editor (text, caret,       *)
(*     key/pointer event handling, scrolling, caret layout);               *)
(*   - ui/themes/materialplus/progressbar.go : ProgressBar.value.          *)
(*                                                                         *)
(* Conventions.                                                            *)
(*   - The editor's contents are a sequence of runes; a rune is a string,  *)
(*     RuneLen gives its UTF-8 length in bytes.  The caret is a BYTE       *)
(*     offset, as in the code (e.rr.caret).                                *)
(*   - fixed.Int26_6 values are whole pixels (the font of the model has    *)
(*     integer advances), so Floor and Ceil are the identity.              *)
(*   - The text shaper is outside the repository: ShaperLayout is a greedy *)
(*     line breaker over a font in which every glyph but "\n" is one pixel *)
(*     wide and every line has ascent 1 and descent 1.                     *)
(*   - A Go run-time panic (slice index out of range) sets e.panic; the    *)
(*     program stops there.                                                *)
(***************************************************************************)
EXTENDS Integers, Sequences, FiniteSets, TLC

VARIABLES e, pc, pending, gtx, last, caretPos, pb

vars == <<e, pc, pending, gtx, last, caretPos, pb>>

\* ------------------------------------------------------------------ bounds

\* Longest contents, in runes.
MaxLen == 2
\* Most key events delivered to one processKey call.
MaxQueue == 1
\* Widest layout constraint offered to Layout, in pixels.
MaxWidth == 2
\* A frame starts with at most this many events not yet handed over.
MaxEvents == 1
\* The caret's remembered horizontal offset stays within -MaxOff .. MaxOff.
MaxOff == 2
\* Progress values range over -MaxOver .. 100 + MaxOver.
MaxOver == 30
\* Widest track of the progress bar, in pixels.
MaxTrack == 7

\* ------------------------------------------------------------------ runes

NL == "\n"
\* The runes typed into the editor state machine (single-byte).
KeyRunes == {"a", NL}
\* The runes of the caret-layout specification; U+00E9 is two bytes long.
AllRunes == {"a", NL, "U+00E9"}

\* utf8.RuneLen
RuneLen(r) == IF r = "U+00E9" THEN 2 ELSE 1

RECURSIVE ByteLen(_)
ByteLen(s) == IF s = <<>> THEN 0 ELSE RuneLen(Head(s)) + ByteLen(Tail(s))

\* All sequences over S of length 0..n.
SeqsUpTo(S, n) == UNION {[1..k -> S] : k \in 0..n}

\* Is the byte offset off on a rune boundary of t ?
OnBoundary(t, off) == \E k \in 0..Len(t) : ByteLen(SubSeq(t, 1, k)) = off

\* The number of runes of t before byte offset off (off on a rune boundary).
RuneIndex(t, off) == CHOOSE k \in 0..Len(t) : ByteLen(SubSeq(t, 1, k)) = off

Min2(a, b) == IF a < b THEN a ELSE b
Max2(a, b) == IF a > b THEN a ELSE b

\* strings.ReplaceAll(s, "\n", "")
RECURSIVE StripNL(_)
StripNL(s) ==
    IF s = <<>> THEN <<>>
    ELSE IF Head(s) = NL THEN StripNL(Tail(s))
    ELSE <<Head(s)>> \o StripNL(Tail(s))

HasNL(s) == \E i \in 1..Len(s) : s[i] = NL

\* ------------------------------------------------------------------ text layout

\* const inf = 1e6 (the width of a single-line editor).
inf == 1000000

Advance(r) == IF r = NL THEN 0 ELSE 1

RECURSIVE SumAdv(_)
SumAdv(s) == IF s = <<>> THEN 0 ELSE Advance(Head(s)) + SumAdv(Tail(s))

\* A text.Line: its glyphs (Layout), byte length (Len), width, ascent, descent.
MkLine(glyphs) ==
    [Layout |-> glyphs, Len |-> ByteLen(glyphs), Width |-> SumAdv(glyphs),
     Ascent |-> 1, Descent |-> 1]

\* text.Shaper.Layout: break after every "\n", and before a glyph that does
\* not fit in maxWidth; the last line may be empty.
RECURSIVE ShaperBreak(_, _, _)
ShaperBreak(rest, cur, maxWidth) ==
    IF rest = <<>> THEN <<MkLine(cur)>>
    ELSE LET r == Head(rest) IN
         IF cur # <<>> /\ SumAdv(cur) + Advance(r) > maxWidth
         THEN <<MkLine(cur)>> \o ShaperBreak(rest, <<>>, maxWidth)
         ELSE IF r = NL
         THEN <<MkLine(cur \o <<r>>)>> \o ShaperBreak(Tail(rest), <<>>, maxWidth)
         ELSE ShaperBreak(Tail(rest), cur \o <<r>>, maxWidth)

ShaperLayout(t, maxWidth) == ShaperBreak(t, <<>>, maxWidth)

RECURSIVE LinesHeight(_, _)
LinesHeight(ls, prevDesc) ==
    IF ls = <<>> THEN 0
    ELSE (prevDesc + Head(ls).Ascent) + LinesHeight(Tail(ls), Head(ls).Descent)

RECURSIVE LinesWidth(_)
LinesWidth(ls) ==
    IF ls = <<>> THEN 0 ELSE Max2(Head(ls).Width, LinesWidth(Tail(ls)))

\* linesDimens: the size of the laid-out lines.
linesDimens(ls) ==
    [X |-> LinesWidth(ls),
     Y |-> IF ls = <<>> THEN 0 ELSE LinesHeight(ls, 0) + ls[Len(ls)].Descent]

\* align: the horizontal offset of a line of the given width in maxWidth.
align(alignment, width, maxWidth) ==
    IF alignment = "End" THEN maxWidth - width ELSE 0

\* ------------------------------------------------------------------ caret layout

\* The inner loop of layoutCaret over the glyphs of one line: stops at the
\* caret or at the end of the line.
RECURSIVE ScanGlyphs(_, _, _, _, _, _)
ScanGlyphs(glyphs, k, idx, x, col, caret) ==
    IF k > Len(glyphs) \/ idx = caret
    THEN [x |-> x, col |-> col]
    ELSE ScanGlyphs(glyphs, k + 1, idx + RuneLen(glyphs[k]),
                    x + Advance(glyphs[k]), col + 1, caret)

\* The outer loop of layoutCaret, from line carLine (0-based) on.
RECURSIVE CaretLoop(_, _, _, _, _, _)
CaretLoop(ls, carLine, idx, y, prevDesc, caret) ==
    LET l  == ls[carLine + 1]
        y2 == y + (prevDesc + l.Ascent)
    IN  IF carLine = Len(ls) - 1 \/ idx + Len(l.Layout) > caret
        THEN LET g == ScanGlyphs(l.Layout, 1, idx, 0, 0, caret)
             IN  [line |-> carLine, col |-> g.col, x |-> g.x, y |-> y2]
        ELSE CaretLoop(ls, carLine + 1, idx + l.Len, y2, l.Descent, caret)

\* Editor.layoutCaret (e.lines is not empty).
layoutCaret(ed) ==
    LET c == CaretLoop(ed.lines, 0, 0, 0, 0, ed.caret)
    IN  [c EXCEPT !.x = c.x + align(ed.Alignment, ed.lines[c.line + 1].Width,
                                    ed.viewSize.X)]

\* Editor.CaretPos
CaretPos(ed) == LET c == layoutCaret(ed) IN <<c.line, c.col>>

\* ------------------------------------------------------------------ editBuffer

\* A Go run-time panic: the program stops.
Panic(ed) == [ed EXCEPT !.panic = TRUE]

\* Run F on ed unless the program has already panicked.
Then(ed, F(_)) == IF ed.panic THEN ed ELSE F(ed)

\* The caret indexes the buffer's bytes: anything else is a slice out of range.
InRange(ed) == ed.caret \in 0..ByteLen(ed.text)

\* editBuffer.runeBefore(caret): the size of the rune before the caret.
runeBefore(ed) ==
    IF ed.caret = 0 THEN 0 ELSE RuneLen(ed.text[RuneIndex(ed.text, ed.caret)])

\* editBuffer.runeAt(caret): the size of the rune at the caret.
runeAt(ed) ==
    IF ed.caret = ByteLen(ed.text) THEN 0
    ELSE RuneLen(ed.text[RuneIndex(ed.text, ed.caret) + 1])

\* editBuffer.prepend: insert s at the caret; the caret stays before s.
rrPrepend(ed, s) ==
    IF ~InRange(ed) THEN Panic(ed)
    ELSE LET k == RuneIndex(ed.text, ed.caret)
         IN  [ed EXCEPT !.text = SubSeq(ed.text, 1, k) \o s
                                   \o SubSeq(ed.text, k + 1, Len(ed.text)),
                        !.changed = ed.changed \/ Len(s) > 0]

\* editBuffer.deleteRunes: negative deletes backward, positive forward.
RECURSIVE rrDeleteRunes(_, _)
rrDeleteRunes(ed, runes) ==
    IF ~InRange(ed) THEN Panic(ed)
    ELSE LET k == RuneIndex(ed.text, ed.caret)
         IN  IF runes < 0 /\ ed.caret > 0
             THEN rrDeleteRunes(
                    [ed EXCEPT !.text = SubSeq(ed.text, 1, k - 1)
                                          \o SubSeq(ed.text, k + 1, Len(ed.text)),
                               !.caret = ed.caret - RuneLen(ed.text[k]),
                               !.changed = TRUE],
                    runes + 1)
             ELSE IF runes > 0 /\ k < Len(ed.text)
             THEN rrDeleteRunes(
                    [ed EXCEPT !.text = SubSeq(ed.text, 1, k)
                                          \o SubSeq(ed.text, k + 2, Len(ed.text)),
                               !.changed = TRUE],
                    runes - 1)
             ELSE ed

\* editBuffer.move: move the caret by runes, stopping at either end.
RECURSIVE rrMove(_, _)
rrMove(ed, runes) ==
    IF runes < 0 /\ ed.caret > 0
    THEN IF ~InRange(ed) THEN Panic(ed)
         ELSE rrMove([ed EXCEPT !.caret = ed.caret - runeBefore(ed)], runes + 1)
    ELSE IF runes > 0 /\ ed.caret # ByteLen(ed.text)
    THEN IF ~InRange(ed) THEN Panic(ed)
         ELSE rrMove([ed EXCEPT !.caret = ed.caret + runeAt(ed)], runes - 1)
    ELSE ed

\* editBuffer.Changed: report and clear the changed flag.
rrChanged(ed) == [ed EXCEPT !.changed = FALSE]

\* ------------------------------------------------------------------ Editor: text

invalidate(ed) == [ed EXCEPT !.valid = FALSE]

prepend(ed, s) ==
    Then(rrPrepend(ed, s), LAMBDA d : invalidate([d EXCEPT !.carXOff = 0]))

\* append with its last statement (e.rr.caret += len(s)) left out.
appendNoCaret(ed, s) ==
    LET s2 == IF ed.SingleLine THEN StripNL(s) ELSE s
    IN  prepend(ed, s2)

append(ed, s) ==
    LET s2 == IF ed.SingleLine THEN StripNL(s) ELSE s
    IN  Then(prepend(ed, s2), LAMBDA d : [d EXCEPT !.caret = d.caret + ByteLen(s2)])

Insert(ed, s) ==
    Then(append(ed, s), LAMBDA d : invalidate([d EXCEPT !.caretScroll = TRUE]))

Delete(ed, runes) ==
    Then(rrDeleteRunes(ed, runes), LAMBDA d : invalidate([d EXCEPT !.carXOff = 0]))

Move(ed, distance) ==
    Then(rrMove(ed, distance), LAMBDA d : [d EXCEPT !.carXOff = 0])

SetText(ed, s) ==
    prepend([ed EXCEPT !.text = <<>>, !.caret = 0, !.changed = FALSE,
                       !.carXOff = 0], s)

Text(ed) == ed.text

\* ------------------------------------------------------------------ Editor: scrolling

scrollBounds(ed) ==
    LET a    == IF Len(ed.lines) > 0
                THEN align(ed.Alignment, ed.lines[1].Width, ed.viewSize.X)
                ELSE 0
        minX == IF ed.SingleLine THEN Min2(a, 0) ELSE 0
    IN  [MinX |-> minX,
         MinY |-> 0,
         MaxX |-> IF ed.SingleLine THEN ed.dims.X + minX - ed.viewSize.X ELSE 0,
         MaxY |-> IF ed.SingleLine THEN 0 ELSE ed.dims.Y - ed.viewSize.Y]

\* One axis of scrollAbs: first the upper bound, then the lower one.
Clamp(v, lo, hi) ==
    LET v1 == IF v > hi THEN hi ELSE v
    IN  IF v1 < lo THEN lo ELSE v1

\* scrollAbs without its two lower-bound tests.
scrollAbsNoLower(ed, x, y) ==
    LET b == scrollBounds(ed)
    IN  [ed EXCEPT !.scrollOff = [X |-> IF x > b.MaxX THEN b.MaxX ELSE x,
                                  Y |-> IF y > b.MaxY THEN b.MaxY ELSE y]]

scrollAbs(ed, x, y) ==
    LET b == scrollBounds(ed)
    IN  [ed EXCEPT !.scrollOff = [X |-> Clamp(x, b.MinX, b.MaxX),
                                  Y |-> Clamp(y, b.MinY, b.MaxY)]]

scrollRel(ed, dx, dy) == scrollAbs(ed, ed.scrollOff.X + dx, ed.scrollOff.Y + dy)

\* ------------------------------------------------------------------ Editor: layout

\* The loop of layoutText: a soft newline takes up all available space.
SoftBreak(ls) ==
    \E i \in 1..(Len(ls) - 1) :
        Len(ls[i].Layout) > 0 /\ ls[i].Layout[Len(ls[i].Layout)] # NL

layoutText(ed) ==
    LET ls == ShaperLayout(ed.text, ed.maxWidth)
        d  == linesDimens(ls)
    IN  [ed EXCEPT !.lines = ls,
                   !.dims = IF SoftBreak(ls) THEN [d EXCEPT !.X = ed.maxWidth] ELSE d]

makeValid(ed) ==
    IF ~ed.valid THEN [layoutText(ed) EXCEPT !.valid = TRUE] ELSE ed

\* ------------------------------------------------------------------ Editor: caret movement

\* for n times: _, s := e.rr.runeBefore(e.rr.caret); e.rr.caret -= s
RECURSIVE BackRunes(_, _)
BackRunes(ed, n) ==
    IF n <= 0 THEN ed
    ELSE IF ~InRange(ed) THEN Panic(ed)
    ELSE BackRunes([ed EXCEPT !.caret = ed.caret - runeBefore(ed)], n - 1)

\* The sum of the byte lengths of lines from..to-1 (0-based).
RECURSIVE LensSum(_, _, _)
LensSum(ls, from, to) ==
    IF from >= to THEN 0 ELSE ls[from + 1].Len + LensSum(ls, from + 1, to)

\* The last loop of moveToLine: move to the rune closest to carX.
RECURSIVE Closest(_, _, _, _, _, _)
Closest(ed, glyphs, i, lim, carX2, carX) ==
    IF i >= lim \/ carX2 >= carX
       \/ carX2 + Advance(glyphs[i + 1]) - carX >= carX - carX2
    THEN [ed |-> ed, off |-> carX - carX2]
    ELSE IF ~InRange(ed) THEN [ed |-> Panic(ed), off |-> 0]
    ELSE Closest([ed EXCEPT !.caret = ed.caret + runeAt(ed)], glyphs, i + 1, lim,
                 carX2 + Advance(glyphs[i + 1]), carX)

\* Editor.moveToLine: the editor afterwards and the returned offset.
moveToLine(ed, carX, carLine2in) ==
    LET c        == layoutCaret(ed)
        n        == Len(ed.lines)
        carLine2 == IF carLine2in < 0 THEN 0
                    ELSE IF carLine2in >= n THEN n - 1 ELSE carLine2in
        d1       == BackRunes(ed, c.col)
        d2       == IF carLine2 > c.line
                    THEN [d1 EXCEPT !.caret = d1.caret + LensSum(ed.lines, c.line, carLine2)]
                    ELSE [d1 EXCEPT !.caret = d1.caret - LensSum(ed.lines, carLine2, c.line)]
        l2       == ed.lines[carLine2 + 1]
        end      == IF carLine2 < n - 1 THEN 1 ELSE 0
    IN  IF d1.panic THEN [ed |-> d1, off |-> 0]
        ELSE Closest(d2, l2.Layout, 0, Len(l2.Layout) - end,
                     align(ed.Alignment, l2.Width, ed.viewSize.X), carX)

\* Move the caret to a line and keep the returned offset in carXOff.
moveLineOff(ed, carX, carLine2) ==
    LET m == moveToLine(ed, carX, carLine2)
    IN  Then(m.ed, LAMBDA d : [d EXCEPT !.carXOff = m.off])

\* The loop of movePages: the line closest to height y.
RECURSIVE PagesLoop(_, _, _, _, _, _)
PagesLoop(ls, i, y, y2, prevDesc, carLine2) ==
    IF i >= Len(ls) \/ y2 >= y THEN carLine2
    ELSE LET h == prevDesc + ls[i + 1].Ascent
         IN  IF y2 + h - y >= y - y2 THEN carLine2
             ELSE PagesLoop(ls, i + 1, y, y2 + h, ls[i + 1].Descent, carLine2 + 1)

movePages(ed, pages) ==
    LET c == layoutCaret(ed)
        y == c.y + pages * ed.viewSize.Y
    IN  moveLineOff(ed, c.x + ed.carXOff,
                    PagesLoop(ed.lines, 1, y, ed.lines[1].Ascent, 0, 0))

moveStart(ed) ==
    LET c == layoutCaret(ed)
        g == ed.lines[c.line + 1].Layout
    IN  Then(BackRunes(ed, c.col),
             LAMBDA d : [d EXCEPT !.carXOff = -(c.x - SumAdv(SubSeq(g, 1, c.col)))])

\* The loop of moveEnd: forward over glyphs i..lim-1 of the caret's line.
RECURSIVE EndLoop(_, _, _, _, _)
EndLoop(ed, glyphs, i, lim, x) ==
    IF i >= lim THEN [ed |-> ed, x |-> x]
    ELSE IF ~InRange(ed) THEN [ed |-> Panic(ed), x |-> x]
    ELSE EndLoop([ed EXCEPT !.caret = ed.caret + runeAt(ed)], glyphs, i + 1, lim,
                 x + Advance(glyphs[i + 1]))

moveEnd(ed) ==
    LET c   == layoutCaret(ed)
        l   == ed.lines[c.line + 1]
        end == IF c.line < Len(ed.lines) - 1 THEN 1 ELSE 0
        r   == EndLoop(ed, l.Layout, c.col, Len(l.Layout) - end, c.x)
        a   == align(ed.Alignment, l.Width, ed.viewSize.X)
    IN  Then(r.ed, LAMBDA d : [d EXCEPT !.carXOff = l.Width + a - r.x])

\* The loop of moveCoord: the first line whose bottom reaches height posY.
RECURSIVE CoordLine(_, _, _, _, _)
CoordLine(ls, i, y, prevDesc, posY) ==
    IF i >= Len(ls) THEN i
    ELSE LET y2 == y + prevDesc + ls[i + 1].Ascent
         IN  IF y2 + ls[i + 1].Descent >= posY THEN i
             ELSE CoordLine(ls, i + 1, y2, ls[i + 1].Descent, posY)

moveCoord(ed, pos) ==
    moveToLine(ed, pos.X + ed.scrollOff.X,
               CoordLine(ed.lines, 0, 0, 0, pos.Y + ed.scrollOff.Y)).ed

scrollToCaret(ed) ==
    LET c == layoutCaret(ed)
        l == ed.lines[c.line + 1]
    IN  IF ed.SingleLine
        THEN LET d1 == c.x - ed.scrollOff.X
                 d2 == c.x - (ed.scrollOff.X + ed.viewSize.X)
             IN  scrollRel(ed, IF d1 < 0 THEN d1 ELSE IF d2 > 0 THEN d2 ELSE 0, 0)
        ELSE LET miny == c.y - l.Ascent
                 maxy == c.y + l.Descent
                 d1   == miny - ed.scrollOff.Y
                 d2   == maxy - (ed.scrollOff.Y + ed.viewSize.Y)
             IN  scrollRel(ed, 0, IF d1 < 0 THEN d1 ELSE IF d2 > 0 THEN d2 ELSE 0)

\* ------------------------------------------------------------------ events

ChangeEvent == [type |-> "Change", Text |-> <<>>]
SubmitEvent(t) == [type |-> "Submit", Text |-> t]

FocusEvent(f) == [type |-> "Focus", Focus |-> f, Name |-> "", Shift |-> FALSE, Text |-> <<>>]
KeyEvent(n, sh) == [type |-> "Key", Focus |-> FALSE, Name |-> n, Shift |-> sh, Text |-> <<>>]
EditEvent(t) == [type |-> "Edit", Focus |-> FALSE, Name |-> "", Shift |-> FALSE, Text |-> t]

ReturnKeys == {"Return", "Enter"}
CommandKeys == ReturnKeys \cup {"DeleteBackward", "DeleteForward", "UpArrow", "DownArrow",
                                "LeftArrow", "RightArrow", "PageUp", "PageDown",
                                "Home", "End"}

\* The key events a frame can deliver; "A" is a key that is no command.
KeyEvents ==
    {FocusEvent(f) : f \in BOOLEAN}
    \cup {KeyEvent(n, FALSE) : n \in CommandKeys \cup {"A"}}
    \cup {KeyEvent(n, TRUE) : n \in ReturnKeys}
    \cup {EditEvent(t) : t \in SeqsUpTo(KeyRunes, 1)}

\* What the history variable last keeps of the key event handled last.
KeyClass(ke) ==
    IF ke.type = "Key" /\ ke.Name \in ReturnKeys
    THEN IF ke.Shift THEN "ShiftReturn" ELSE "Return"
    ELSE IF ke.type = "Focus" THEN "focus" ELSE "other"

\* ------------------------------------------------------------------ Editor: event handling

\* Editor.command: the editor afterwards; CommandKeys are the handled names.
command(ed, k) ==
    CASE k.Name \in ReturnKeys     -> append(ed, <<NL>>)
      [] k.Name = "DeleteBackward" -> Delete(ed, -1)
      [] k.Name = "DeleteForward"  -> Delete(ed, 1)
      [] k.Name = "UpArrow"        ->
            LET c == layoutCaret(ed) IN moveLineOff(ed, c.x + ed.carXOff, c.line - 1)
      [] k.Name = "DownArrow"      ->
            LET c == layoutCaret(ed) IN moveLineOff(ed, c.x + ed.carXOff, c.line + 1)
      [] k.Name = "LeftArrow"      -> Move(ed, -1)
      [] k.Name = "RightArrow"     -> Move(ed, 1)
      [] k.Name = "PageUp"         -> movePages(ed, -1)
      [] k.Name = "PageDown"       -> movePages(ed, 1)
      [] k.Name = "Home"           -> moveStart(ed)
      [] k.Name = "End"            -> moveEnd(ed)
      [] OTHER                     -> ed

\* noteChange without the test of e.rr.Changed().
noteAlways(ed) == [rrChanged(ed) EXCEPT !.events = Append(ed.events, ChangeEvent)]

\* if e.rr.Changed() { e.events = append(e.events, ChangeEvent{}) }
noteChange(ed) ==
    IF ed.changed
    THEN [rrChanged(ed) EXCEPT !.events = Append(ed.events, ChangeEvent)]
    ELSE ed

\* Does processKey return on this event (a submit) ?
Submits(ed, ke) ==
    /\ ke.type = "Key" /\ ed.focused
    /\ ed.Submit /\ ke.Name \in ReturnKeys /\ ~ke.Shift

\* The loop body without the submit branch's return.
processKeyNoReturn(ed, ke) ==
    LET d0 == IF Submits(ed, ke)
              THEN [ed EXCEPT !.events = Append(ed.events, SubmitEvent(Text(ed)))]
              ELSE ed
        d  == CASE ke.type = "Focus" -> [d0 EXCEPT !.focused = ke.Focus]
                [] ke.type = "Key" ->
                     IF ~d0.focused THEN d0
                     ELSE Then(command(d0, ke),
                               LAMBDA c : IF ke.Name \in CommandKeys
                                          THEN [c EXCEPT !.caretScroll = TRUE]
                                          ELSE c)
                [] OTHER -> append([d0 EXCEPT !.caretScroll = TRUE], ke.Text)
    IN  Then(d, noteChange)

\* One iteration of the loop of processKey, on key event ke.
processKey(ed, ke) ==
    IF Submits(ed, ke)
    THEN [ed EXCEPT !.events = Append(ed.events, SubmitEvent(Text(ed)))]
    ELSE LET d == CASE ke.type = "Focus" -> [ed EXCEPT !.focused = ke.Focus]
                    [] ke.type = "Key" ->
                         IF ~ed.focused THEN ed
                         ELSE Then(command(ed, ke),
                                   LAMBDA c : IF ke.Name \in CommandKeys
                                              THEN [c EXCEPT !.caretScroll = TRUE]
                                              ELSE c)
                    [] OTHER -> append([ed EXCEPT !.caretScroll = TRUE], ke.Text)
         IN  Then(d, noteChange)

\* Editor.processPointer: a scroll of sdist and at most one click.
processPointer(ed, sdist, click) ==
    LET d == IF ed.SingleLine THEN scrollRel(ed, sdist, 0) ELSE scrollRel(ed, 0, sdist)
    IN  IF click.none THEN d
        ELSE Then(moveCoord(d, click.pos),
                  LAMBDA c : IF click.flinging THEN c ELSE [c EXCEPT !.caretScroll = TRUE])

\* layout.Constraints.Constrain
Constrain(cs, size) ==
    [X |-> Max2(cs.WMin, Min2(cs.WMax, size.X)),
     Y |-> Max2(cs.HMin, Min2(cs.HMax, size.Y))]

\* Editor.layout: the part of it that changes the state the model keeps.
layout(ed, cs) ==
    LET d1 == makeValid(ed)
        d2 == scrollRel([d1 EXCEPT !.viewSize = Constrain(cs, d1.dims)], 0, 0)
    IN  IF d2.caretScroll
        THEN scrollToCaret([d2 EXCEPT !.caretScroll = FALSE])
        ELSE d2

\* Editor.Layout up to the loop of processKey.
LayoutHead(ed, cs, sdist, click) ==
    LET d1 == [ed EXCEPT !.events = SubSeq(ed.events, ed.prevEvents + 1, Len(ed.events)),
                         !.prevEvents = Len(ed.events) - ed.prevEvents]
        d2 == d1
        mw == IF ed.SingleLine THEN inf ELSE cs.WMax
        d3 == IF mw # d2.maxWidth THEN invalidate([d2 EXCEPT !.maxWidth = mw]) ELSE d2
        d4 == IF ~d3.shaper THEN invalidate([d3 EXCEPT !.shaper = TRUE]) ELSE d3
    IN  Then(processPointer(makeValid(d4), sdist, click), noteChange)

\* Editor.Events up to the loop of processKey.
EventsHead(ed, sdist, click) ==
    IF ~ed.shaper THEN ed
    ELSE Then(processPointer(makeValid(ed), sdist, click), noteChange)

\* Editor.Events after processEvents: hand the events over.
EventsTail(ed) == [ed EXCEPT !.events = <<>>, !.prevEvents = 0]

\* ------------------------------------------------------------------ the editor state machine

\* A zero Editor with its exported fields set by the application.
NewEditor(al, single, submit) ==
    [Alignment |-> al, SingleLine |-> single, Submit |-> submit,
     shaper |-> FALSE, focused |-> FALSE,
     text |-> <<>>, caret |-> 0, changed |-> FALSE,
     maxWidth |-> 0, viewSize |-> [X |-> 0, Y |-> 0], valid |-> FALSE,
     lines |-> <<>>, dims |-> [X |-> 0, Y |-> 0],
     caretScroll |-> FALSE, carXOff |-> 0, scrollOff |-> [X |-> 0, Y |-> 0],
     events |-> <<>>, prevEvents |-> 0, panic |-> FALSE]

NoGtx == [WMin |-> 0, WMax |-> 0, HMin |-> 0, HMax |-> 0]
NoLast == [class |-> "none", changed |-> FALSE]
NoPos == <<-1, -1>>
NoBar == [progress |-> 0, W |-> 0, track |-> 0, width |-> 0, drawn |-> FALSE]

\* The constraints a frame offers: loose (Min = 0) or tight (Min = Max).
Constraints ==
    {[WMin |-> IF tight THEN w ELSE 0, WMax |-> w,
      HMin |-> IF tight THEN 4 ELSE 0, HMax |-> IF tight THEN 4 ELSE 2] :
        w \in 2..MaxWidth, tight \in BOOLEAN}

NoClick == [none |-> TRUE, pos |-> [X |-> 0, Y |-> 0], flinging |-> FALSE]
Clicks ==
    {NoClick,
     [none |-> FALSE, pos |-> [X |-> 0, Y |-> 0], flinging |-> FALSE],
     [none |-> FALSE, pos |-> [X |-> 2, Y |-> 3], flinging |-> FALSE],
     [none |-> FALSE, pos |-> [X |-> 2, Y |-> 3], flinging |-> TRUE]}
Scrolls == {-1, 0, 2}

\* The strings the application sets or inserts.
Strings == SeqsUpTo(KeyRunes, 1) \cup {<<"a", NL>>}

\* Nothing has been called yet.
Idle ==
    /\ pc = "idle"
    /\ pending = 0
    /\ gtx = NoGtx
    /\ last = NoLast
    /\ caretPos = NoPos
    /\ pb = NoBar

\* The editor with its default alignment, in each of its four modes.
Init ==
    /\ e \in {NewEditor("Start", single, submit) :
                single \in BOOLEAN, submit \in BOOLEAN}
    /\ Idle

\* The editor without Submit, text aligned to either side.
InitScroll ==
    /\ e \in {NewEditor(al, single, FALSE) :
                al \in {"Start", "End"}, single \in BOOLEAN}
    /\ Idle

\* The application's call returns into state d, or the program panics.
Return(d, to) ==
    /\ Len(d.text) <= MaxLen
    /\ d.carXOff \in -MaxOff..MaxOff
    /\ e' = d
    /\ pc' = IF d.panic THEN "panic" ELSE to
    /\ UNCHANGED <<caretPos, pb>>

CallSetText ==
    /\ pc = "idle"
    /\ \E s \in Strings : Return(SetText(e, s), "idle")
    /\ UNCHANGED <<pending, gtx, last>>

CallInsert ==
    /\ pc = "idle"
    /\ \E s \in Strings : Return(Insert(e, s), "idle")
    /\ UNCHANGED <<pending, gtx, last>>

CallDelete ==
    /\ pc = "idle"
    /\ \E n \in {-1, 1} : Return(Delete(e, n), "idle")
    /\ UNCHANGED <<pending, gtx, last>>

CallMove ==
    /\ pc = "idle"
    /\ \E n \in {-1, 1} : Return(Move(e, n), "idle")
    /\ UNCHANGED <<pending, gtx, last>>

\* Layout is called: everything before the loop over the frame's key events.
LayoutBegin ==
    /\ pc = "idle"
    /\ Len(e.events) <= MaxEvents
    /\ \E cs \in Constraints, sdist \in Scrolls, click \in Clicks, n \in 0..MaxQueue :
        /\ Return(LayoutHead(e, cs, sdist, click), "Layout")
        /\ gtx' = cs
        /\ pending' = n
    /\ last' = NoLast

\* Events is called: everything before the loop over the frame's key events.
EventsBegin ==
    /\ pc = "idle"
    /\ Len(e.events) <= MaxEvents
    /\ \E sdist \in Scrolls, click \in Clicks, n \in 0..MaxQueue :
        /\ Return(EventsHead(e, sdist, click), "Events")
        /\ pending' = IF e.shaper THEN n ELSE 0
    /\ last' = NoLast
    /\ UNCHANGED gtx

\* The loop of processKey handles the next key event of the frame.
KeyStep ==
    /\ pc \in {"Layout", "Events"}
    /\ pending > 0
    /\ \E ke \in KeyEvents :
        /\ Return(processKey(e, ke), pc)
        /\ pending' = IF Submits(e, ke) THEN 0 ELSE pending - 1
        /\ last' = [class |-> KeyClass(ke),
                    changed |-> processKey(e, ke).text # e.text]
    /\ UNCHANGED gtx

\* processKey is over: Layout lays the editor out and returns.
LayoutEnd ==
    /\ pc = "Layout"
    /\ pending = 0
    /\ Return(layout(e, gtx), "idle")
    /\ gtx' = NoGtx
    /\ last' = NoLast
    /\ UNCHANGED pending

\* processKey is over: Events returns the pending events.
EventsEnd ==
    /\ pc = "Events"
    /\ pending = 0
    /\ Return(EventsTail(e), "idle")
    /\ last' = NoLast
    /\ UNCHANGED <<pending, gtx>>

Next ==
    \/ CallSetText
    \/ CallInsert
    \/ CallDelete
    \/ CallMove
    \/ LayoutBegin
    \/ EventsBegin
    \/ KeyStep
    \/ LayoutEnd
    \/ EventsEnd

Spec == Init /\ [][Next]_vars

SpecScroll == InitScroll /\ [][Next]_vars

\* ------------------------------------------------------------------ CaretPos on laid-out text

\* An editor whose contents t (multi-byte runes included) have been set and
\* laid out at width w, with the caret moved to byte offset c.
LaidOut(t, w, c) ==
    LET d == makeValid([NewEditor("Start", FALSE, FALSE) EXCEPT
                            !.text = t, !.caret = c, !.maxWidth = w, !.shaper = TRUE])
    IN  [d EXCEPT !.viewSize = [X |-> Min2(w, d.dims.X), Y |-> d.dims.Y]]

InitCaret ==
    /\ e \in {LaidOut(t, w, c) : t \in SeqsUpTo(AllRunes, MaxLen), w \in 1..MaxWidth,
                                 c \in 0..(2 * MaxLen)}
    /\ OnBoundary(e.text, e.caret)
    /\ Idle

\* The application asks for the caret's line and column.
CallCaretPos ==
    /\ pc = "idle"
    /\ caretPos = NoPos
    /\ caretPos' = CaretPos(e)
    /\ UNCHANGED <<e, pc, pending, gtx, last, pb>>

NextCaret == CallCaretPos

SpecCaret == InitCaret /\ [][NextCaret]_vars

\* ------------------------------------------------------------------ ProgressBar

\* int(x) for the rational x = n / d: truncation toward zero.
Trunc(n, d) == IF n >= 0 THEN n \div d ELSE -((-n) \div d)

\* ProgressBar.track: the width handed to borderedRectangle.
track(W) == W

\* ProgressBar.value: the width handed to borderedRectangle for a progress
\* (a whole number here) and a maximum width W; progress / 100 * W is exact.
value(progress, W) ==
    IF progress * W > 100 * W THEN W ELSE Trunc(progress * W, 100)

InitBar ==
    /\ e = NewEditor("Start", FALSE, FALSE)
    /\ pc = "idle" /\ pending = 0 /\ gtx = NoGtx /\ last = NoLast /\ caretPos = NoPos
    /\ pb \in {[NoBar EXCEPT !.progress = p, !.W = w] :
                 p \in (-MaxOver)..(100 + MaxOver), w \in 0..MaxTrack}

\* ProgressBar.Layout: the track, then the completed progress on top of it.
BarLayout ==
    /\ ~pb.drawn
    /\ pb' = [pb EXCEPT !.track = track(pb.W), !.width = value(pb.progress, pb.W),
                        !.drawn = TRUE]
    /\ UNCHANGED <<e, pc, pending, gtx, last, caretPos>>

NextBar == BarLayout

SpecBar == InitBar /\ [][NextBar]_vars

\* ================================================================== claims

\* A step of the loop of processKey that runs to its end.
KeyHandled == pc \in {"Layout", "Events"} /\ pending > 0 /\ ~e'.panic

\* The suffix that a step appends to the pending events.
Appended == SubSeq(e'.events, Len(e.events) + 1, Len(e'.events))

IsAppend == Len(e'.events) >= Len(e.events)
            /\ SubSeq(e'.events, 1, Len(e.events)) = e.events

NumChange(evs) == Cardinality({i \in 1..Len(evs) : evs[i] = ChangeEvent})

\* t with "\n" inserted at byte offset off.
WithNewline(t, off) ==
    LET k == RuneIndex(t, off)
    IN  SubSeq(t, 1, k) \o <<NL>> \o SubSeq(t, k + 1, Len(t))

\* C1: every key, edit or focus event the loop of processKey handles appends
\* exactly one ChangeEvent to the pending events when it changes the editor's
\* contents, and no ChangeEvent when it leaves them unchanged.
C1_ChangeEventPerChange ==
    [][KeyHandled =>
         /\ IsAppend
         /\ NumChange(Appended) = IF e'.text # e.text THEN 1 ELSE 0]_vars

\* C1 witness: a handled event has changed the contents and its ChangeEvent
\* is the last pending event.
C1_Witness ==
    /\ pc \in {"Layout", "Events"}
    /\ last.class = "other" /\ last.changed
    /\ e.events # <<>> /\ e.events[Len(e.events)] = ChangeEvent

C3_Original ==
    [][(KeyHandled /\ e.focused /\ ~e.Submit
        /\ last'.class \in {"Return", "ShiftReturn"}) =>
         /\ e'.text = WithNewline(e.text, e.caret)
         /\ e'.caret = e.caret + 1]_vars

\* C3 amended: every Return or Enter key event handled by a focused editor
\* with Submit unset and SingleLine unset inserts one "\n" at the caret and
\* advances the caret by one byte; with SingleLine set it changes neither.
C3_NewlineOnReturn ==
    [][(KeyHandled /\ e.focused /\ ~e.Submit
        /\ last'.class \in {"Return", "ShiftReturn"}) =>
         IF e.SingleLine
         THEN e'.text = e.text /\ e'.caret = e.caret
         ELSE e'.text = WithNewline(e.text, e.caret) /\ e'.caret = e.caret + 1]_vars

\* C3 witness: a Return key has put a newline in the middle of the contents of
\* a multi-line editor without Submit, and the caret is behind it.
C3_Witness ==
    /\ ~e.Submit /\ ~e.SingleLine /\ e.focused
    /\ last.class = "Return" /\ last.changed
    /\ e.caret = 2 /\ e.text = <<"a", NL>>

\* C4: the contents of an editor with SingleLine set never hold a newline.
C4_SingleLineNoNewline == e.SingleLine => ~HasNL(Text(e))

\* The 0-based line whose byte range holds the caret: a caret between two
\* lines is on the later one, the end of the text is on the last line.
RefLine(ed) ==
    CHOOSE i \in 0..(Len(ed.lines) - 1) :
        /\ LensSum(ed.lines, 0, i) <= ed.caret
        /\ \/ ed.caret < LensSum(ed.lines, 0, i + 1)
           \/ i = Len(ed.lines) - 1

\* The runes between the start of the caret's line and the caret.
RefCol(ed) ==
    RuneIndex(ed.text, ed.caret)
        - RuneIndex(ed.text, LensSum(ed.lines, 0, RefLine(ed)))

\* C5: CaretPos returns the line whose byte range holds the caret and the
\* number of runes between the start of that line and the caret.
C5_CaretPos == caretPos # NoPos => caretPos = <<RefLine(e), RefCol(e)>>

\* C6: the scroll offset is within the scroll bounds: never below Min, never
\* above Max where Max >= Min, equal to Min where Max < Min; a multi-line
\* editor has X = 0 and Y in 0 .. max(0, content height - view height).
C6_ScrollClamped ==
    LET b == scrollBounds(e)
        o == e.scrollOff
    IN  /\ o.X >= b.MinX /\ o.Y >= b.MinY
        /\ b.MaxX >= b.MinX => o.X <= b.MaxX
        /\ b.MaxY >= b.MinY => o.Y <= b.MaxY
        /\ b.MaxX < b.MinX => o.X = b.MinX
        /\ b.MaxY < b.MinY => o.Y = b.MinY
        /\ ~e.SingleLine => /\ o.X = 0
                            /\ o.Y \in 0..Max2(0, e.dims.Y - e.viewSize.Y)

\* C6 witness: a laid-out single-line editor scrolled to a negative lower
\* bound, its text wider than the view.
C6_Witness ==
    /\ pc = "idle" /\ e.valid /\ e.SingleLine
    /\ e.dims.X > e.viewSize.X
    /\ scrollBounds(e).MinX < 0
    /\ e.scrollOff.X = scrollBounds(e).MinX

\* C7: the width of the completed-progress rectangle is within 0 .. W, is W
\* for a progress of 100 or more, and is the truncation of progress / 100 * W
\* for a progress in 0 .. 100.
C7_ValueWithinTrack ==
    pb.drawn =>
        /\ pb.width \in 0..pb.W
        /\ pb.width <= pb.track
        /\ pb.progress >= 100 => pb.width = pb.W
        /\ pb.progress \in 0..100 => pb.width = (pb.progress * pb.W) \div 100

====
